---------------------------- MODULE Spec2Model ----------------------------
(***************************************************************************)
(* A model of the search result cache of file_knowledge_mcp                *)
(* (src/src/file_knowledge_mcp/search/cache.py): key derivation, the       *)
(* lock-guarded get / set / clear coroutines, capacity eviction, lazy TTL  *)
(* expiration and the stats property.                                      *)
(*                                                                         *)
(* Strings are sequences of one-character strings.  The dict _cache is a   *)
(* sequence of entries in insertion order (a Python dict iterates in       *)
(* insertion order, which is what min() in _evict_oldest sees).            *)
(***************************************************************************)
EXTENDS Integers, Sequences, FiniteSets, TLC

\* ------------------------------------------------------------- bounds

\* Largest capacity a cache is constructed with (max_size ranges over 1..MaxCapacity).
MaxCapacity == 2

\* The time-to-live the cache is constructed with.
ttl_seconds == 1

\* Last reading of the clock.
MaxTime == 2

\* Cap on the hits counted by the stored entries together.
MaxHits == 2

\* Most searches the engine is asked for.
MaxSearches == 2

\* ------------------------------------------------------------ callers

Procs == {1, 2}

NoOne == 0

\* Python's None.
None == "None"

\* The opaque result payloads handed to set.
Results == {"r1", "r2"}

\* ------------------------------------------------------ key derivation

\* Code points of the characters that occur in keyword names.
Ord(ch) ==
  CASE ch = "_" -> 95
    [] ch = "c" -> 99
    [] ch = "e" -> 101
    [] ch = "f" -> 102
    [] ch = "l" -> 108
    [] ch = "m" -> 109
    [] ch = "r" -> 114
    [] OTHER -> 0

\* Python's str < str: lexicographic on code points, a proper prefix is smaller.
RECURSIVE StrLess(_, _)
StrLess(s, t) ==
  IF t = <<>> THEN FALSE
  ELSE IF s = <<>> THEN TRUE
  ELSE IF Ord(Head(s)) # Ord(Head(t)) THEN Ord(Head(s)) < Ord(Head(t))
  ELSE StrLess(Tail(s), Tail(t))

\* Insert one (name, value) item into a list sorted by name.
RECURSIVE InsertSorted(_, _)
InsertSorted(item, items) ==
  IF items = <<>> THEN <<item>>
  ELSE IF StrLess(item[1], Head(items)[1]) THEN <<item>> \o items
  ELSE <<Head(items)>> \o InsertSorted(item, Tail(items))

\* sorted(kwargs.items()): keyword names are unique, so the names decide.
RECURSIVE Sorted(_)
Sorted(items) ==
  IF items = <<>> THEN <<>>
  ELSE InsertSorted(items[Len(items)], Sorted(SubSeq(items, 1, Len(items) - 1)))

\* repr() of a keyword value: a bool or a one-digit int.
ReprValue(v) ==
  IF v[1] = "bool"
  THEN (IF v[2] = 1 THEN <<"T", "r", "u", "e">> ELSE <<"F", "a", "l", "s", "e">>)
  ELSE <<ToString(v[2])>>

\* repr() of one item: ('name', value).
ReprItem(item) ==
  <<"(", "'">> \o item[1] \o <<"'", ",", " ">> \o ReprValue(item[2]) \o <<")">>

RECURSIVE ReprItems(_)
ReprItems(items) ==
  IF items = <<>> THEN <<>>
  ELSE IF Len(items) = 1 THEN ReprItem(items[1])
  ELSE ReprItem(items[1]) \o <<",", " ">> \o ReprItems(Tail(items))

\* repr() of a list of items.
ReprList(items) == <<"[">> \o ReprItems(items) \o <<"]">>

\* f"{query}:{path}:{sorted(kwargs.items())}"
KeyData(query, path, kwargs) ==
  query \o <<":">> \o path \o <<":">> \o ReprList(Sorted(kwargs))

\* hashlib.sha256(...).hexdigest()[:16], idealised as collision free: the
\* digest is a tagged value that is equal exactly when the hashed strings are.
Sha256Hex16(s) == <<"sha256", s>>

\* A faulty _make_key: the keyword arguments serialised in the caller's order.
make_key_unsorted(query, path, kwargs) ==
  Sha256Hex16(query \o <<":">> \o path \o <<":">> \o ReprList(kwargs))

make_key(query, path, kwargs) == Sha256Hex16(KeyData(query, path, kwargs))

\* ---------------------------------------------------------- the dict

\* CacheEntry(result, created_at, hits), stored with the key it is filed under.
CacheEntry(k, result, created_at) ==
  [key |-> k, result |-> result, created_at |-> created_at, hits |-> 0]

\* key in self._cache
Has(c, k) == \E i \in 1..Len(c) : c[i].key = k

IndexOf(c, k) == CHOOSE i \in 1..Len(c) : c[i].key = k

\* self._cache[key], for a stored key
Lookup(c, k) == c[IndexOf(c, k)]

RemoveAt(c, i) == SubSeq(c, 1, i - 1) \o SubSeq(c, i + 1, Len(c))

\* del self._cache[key]
DictDel(c, k) == IF Has(c, k) THEN RemoveAt(c, IndexOf(c, k)) ELSE c

\* self._cache[key] = e: a stored key keeps its place, a new key goes last.
DictSet(c, k, e) ==
  IF Has(c, k) THEN [c EXCEPT ![IndexOf(c, k)] = e] ELSE Append(c, e)

KeysOf(c) == {c[i].key : i \in 1..Len(c)}

\* min(self._cache.keys(), key=created_at): the first key, in iteration
\* order, whose created_at is the smallest.
OldestIndex(c) ==
  CHOOSE i \in 1..Len(c) :
    /\ \A j \in 1..Len(c) : c[i].created_at <= c[j].created_at
    /\ \A j \in 1..(i - 1) : c[j].created_at > c[i].created_at

\* A faulty _evict_oldest: the entry inserted last goes.
evict_newest(c) == IF c = <<>> THEN c ELSE RemoveAt(c, Len(c))

\* SearchCache._evict_oldest
evict_oldest(c) == IF c = <<>> THEN c ELSE RemoveAt(c, OldestIndex(c))

RECURSIVE SumHits(_)
SumHits(c) == IF c = <<>> THEN 0 ELSE Head(c).hits + SumHits(Tail(c))

\* ------------------------------------------------------------- state

VARIABLES
  max_size,   \* self.max_size, fixed at construction
  cache,      \* self._cache
  lock,       \* the caller holding self._lock, or NoOne
  now,        \* the reading time.time() gives
  pc,         \* each caller's position in its coroutine
  req,        \* each caller's (query, path, kwargs)
  arg,        \* the result a caller passes to set
  key,        \* the key a caller derived
  tmp,        \* the hits value a caller loaded for entry.hits += 1
  tnow,       \* the clock value a caller's operation read
  ret,        \* the value a caller's operation returns
  pre,        \* history: the dict as the caller's critical section found it
  shadow,     \* history, per stored key: who set it, what, when, hits since
  search,     \* each caller's stage in the engine's search, "none" outside it
  cur,        \* the search under way: its call, its result, what it did
  log         \* history: the searches completed, in order

cvars == <<max_size, cache, lock, now, pc, req, arg, key, tmp, tnow, ret, pre, shadow>>

\* The engine's side of the state.
evars == <<search, cur, log>>

vars == <<max_size, cache, lock, now, pc, req, arg, key, tmp, tnow, ret, pre, shadow,
          search, cur, log>>

\* A call's parameters: query and path are strings, kwargs the keyword
\* arguments in the order the caller wrote them.
Request(query, path, kwargs) == [query |-> query, path |-> path, kwargs |-> kwargs]

NoReq == Request(<<>>, <<>>, <<>>)

NoKey == <<"none", <<>>>>

fuzzy == <<"f">>

max_results == <<"m", "_", "r">>

recursive == <<"r", "e">>

context_lines == <<"c", "_", "l">>

\* The calls of the concurrent specification: the same query under two
\* paths, and under the first path with a keyword (test_cache_key_generation).
Requests ==
  { Request(<<"t">>, <<"/", "1">>, <<>>),
    Request(<<"t">>, <<"/", "2">>, <<>>),
    Request(<<"t">>, <<"/", "1">>, << <<fuzzy, <<"bool", 1>>>> >>) }

KeyOf(r) == make_key(r.query, r.path, r.kwargs)

\* The same parameter set: equal query and path, and the same keywords with
\* the same values, in whatever order.
SameParams(r1, r2) ==
  /\ r1.query = r2.query
  /\ r1.path = r2.path
  /\ {r1.kwargs[i] : i \in 1..Len(r1.kwargs)} = {r2.kwargs[i] : i \in 1..Len(r2.kwargs)}

\* A search: the call, the result it returns, whether it ran the external
\* search process, and the clock reading of its cache lookup.
NoSearch == [req |-> NoReq, result |-> None, invoked |-> 0, at |-> 0]

NoShadow == [req |-> NoReq, result |-> None, at |-> 0, hits |-> 0]

\* The history of the keys that dict c stores.
Keep(sh, c) == [k \in KeysOf(c) |-> IF k \in DOMAIN sh THEN sh[k] ELSE NoShadow]

InGet(p) == pc[p] \in {"get_lookup", "get_inc", "get_ret"}

InCritical(p) ==
  pc[p] \in {"get_lookup", "get_inc", "get_ret", "set_check", "set_insert",
             "set_ret", "clear_body", "clear_ret"}

Init ==
  /\ max_size \in 1..MaxCapacity
  /\ cache = <<>>
  /\ lock = NoOne
  /\ now = 0
  /\ pc = [p \in Procs |-> "idle"]
  /\ req = [p \in Procs |-> NoReq]
  /\ arg = [p \in Procs |-> None]
  /\ key = [p \in Procs |-> NoKey]
  /\ tmp = [p \in Procs |-> 0]
  /\ tnow = [p \in Procs |-> 0]
  /\ ret = [p \in Procs |-> None]
  /\ pre = [p \in Procs |-> <<>>]
  /\ shadow = Keep(<<>>, <<>>)
  /\ search = [p \in Procs |-> "none"]
  /\ cur = [p \in Procs |-> NoSearch]
  /\ log = <<>>

\* ---------------------------------------------------------- the clock

\* time.time() moves on between any two steps.
Tick ==
  /\ now < MaxTime
  /\ now' = now + 1
  /\ UNCHANGED <<max_size, cache, lock, pc, req, arg, key, tmp, tnow, ret, pre, shadow>>

\* ----------------------------------------------------------- the lock

\* A faulty lock: entering does not wait for the lock to be free.
LockAcquireUnguarded(p) == lock' = p

\* async with self._lock, entering: waits until the lock is free.
LockAcquire(p) == lock = NoOne /\ lock' = p

\* A faulty release: the caller leaves the operation with the lock still held.
LockKept(p) == lock' = lock

\* async with self._lock, leaving (on every return inside the block).
LockRelease(p) == lock' = NoOne

\* The caller is back where it started; its locals are gone.
Return(p) ==
  /\ pc' = [pc EXCEPT ![p] = "idle"]
  /\ req' = [req EXCEPT ![p] = NoReq]
  /\ arg' = [arg EXCEPT ![p] = None]
  /\ key' = [key EXCEPT ![p] = NoKey]
  /\ tmp' = [tmp EXCEPT ![p] = 0]
  /\ tnow' = [tnow EXCEPT ![p] = 0]
  /\ ret' = [ret EXCEPT ![p] = None]
  /\ pre' = [pre EXCEPT ![p] = <<>>]

\* ----------------------------------------------------- SearchCache.get

\* Room under MaxHits for one more get, counting the gets under way.
HitsRoom == SumHits(cache) + Cardinality({q \in Procs : InGet(q)}) < MaxHits

\* get is called: key = self._make_key(query, path, **kwargs), then the
\* caller enters async with self._lock.  A caller that finds the lock held
\* has not taken this step yet.
GetCall(p, r) ==
  /\ pc[p] = "idle"
  /\ HitsRoom
  /\ LockAcquire(p)
  /\ pc' = [pc EXCEPT ![p] = "get_lookup"]
  /\ req' = [req EXCEPT ![p] = r]
  /\ key' = [key EXCEPT ![p] = KeyOf(r)]
  /\ UNCHANGED <<max_size, cache, now, arg, tmp, tnow, ret, pre, shadow>>

\* A faulty TTL test: >= for >.
ExpiredAtTtl(e, t) == t - e.created_at >= ttl_seconds

\* time.time() - entry.created_at > self.ttl_seconds
Expired(e, t) == t - e.created_at > ttl_seconds

\* A faulty lookup: a miss sweeps the entries past their TTL out of the dict.
GetLookupSweeps(p) ==
  /\ pc[p] = "get_lookup"
  /\ pre' = [pre EXCEPT ![p] = cache]
  /\ tnow' = [tnow EXCEPT ![p] = now]
  /\ IF ~Has(cache, key[p])
     THEN /\ cache' = SelectSeq(cache, LAMBDA e : ~Expired(e, now))
          /\ shadow' = Keep(shadow, cache')
          /\ ret' = [ret EXCEPT ![p] = None]
          /\ pc' = [pc EXCEPT ![p] = "get_ret"]
          /\ UNCHANGED tmp
     ELSE IF Expired(Lookup(cache, key[p]), now)
     THEN /\ cache' = DictDel(cache, key[p])
          /\ shadow' = Keep(shadow, cache')
          /\ ret' = [ret EXCEPT ![p] = None]
          /\ pc' = [pc EXCEPT ![p] = "get_ret"]
          /\ UNCHANGED tmp
     ELSE /\ tmp' = [tmp EXCEPT ![p] = Lookup(cache, key[p]).hits]
          /\ pc' = [pc EXCEPT ![p] = "get_inc"]
          /\ UNCHANGED <<cache, ret, shadow>>
  /\ UNCHANGED <<max_size, lock, now, req, arg, key>>

\* A faulty lookup: an expired entry is purged and the call ends in an error
\* (pc "raised") instead of returning None.
GetLookupRaises(p) ==
  /\ pc[p] = "get_lookup"
  /\ pre' = [pre EXCEPT ![p] = cache]
  /\ tnow' = [tnow EXCEPT ![p] = now]
  /\ IF ~Has(cache, key[p])
     THEN /\ ret' = [ret EXCEPT ![p] = None]
          /\ pc' = [pc EXCEPT ![p] = "get_ret"]
          /\ UNCHANGED <<cache, tmp, shadow>>
     ELSE IF Expired(Lookup(cache, key[p]), now)
     THEN /\ cache' = DictDel(cache, key[p])
          /\ shadow' = Keep(shadow, cache')
          /\ pc' = [pc EXCEPT ![p] = "raised"]
          /\ UNCHANGED <<tmp, ret>>
     ELSE /\ tmp' = [tmp EXCEPT ![p] = Lookup(cache, key[p]).hits]
          /\ pc' = [pc EXCEPT ![p] = "get_inc"]
          /\ UNCHANGED <<cache, ret, shadow>>
  /\ UNCHANGED <<max_size, lock, now, req, arg, key>>

\* entry = self._cache.get(key); the None test and the TTL test, with the
\* del of an expired entry; on a fresh entry, the load of entry.hits.
GetLookup(p) ==
  /\ pc[p] = "get_lookup"
  /\ pre' = [pre EXCEPT ![p] = cache]
  /\ tnow' = [tnow EXCEPT ![p] = now]
  /\ IF ~Has(cache, key[p])
     THEN /\ ret' = [ret EXCEPT ![p] = None]
          /\ pc' = [pc EXCEPT ![p] = "get_ret"]
          /\ UNCHANGED <<cache, tmp, shadow>>
     ELSE IF Expired(Lookup(cache, key[p]), now)
     THEN /\ cache' = DictDel(cache, key[p])
          /\ shadow' = Keep(shadow, cache')
          /\ ret' = [ret EXCEPT ![p] = None]
          /\ pc' = [pc EXCEPT ![p] = "get_ret"]
          /\ UNCHANGED tmp
     ELSE /\ tmp' = [tmp EXCEPT ![p] = Lookup(cache, key[p]).hits]
          /\ pc' = [pc EXCEPT ![p] = "get_inc"]
          /\ UNCHANGED <<cache, ret, shadow>>
  /\ UNCHANGED <<max_size, lock, now, req, arg, key>>

\* A faulty hit: it also moves created_at, as a true LRU would.
HitRefreshes(e, h) == [e EXCEPT !.hits = h + 1, !.created_at = e.created_at + 1]

\* The entry after entry.hits += 1, h being the hits value loaded.
Hit(e, h) == [e EXCEPT !.hits = h + 1]

\* The store of entry.hits += 1, and return entry.result.
GetInc(p) ==
  /\ pc[p] = "get_inc"
  /\ IF Has(cache, key[p])
     THEN /\ cache' = DictSet(cache, key[p], Hit(Lookup(cache, key[p]), tmp[p]))
          /\ ret' = [ret EXCEPT ![p] = Lookup(cache, key[p]).result]
          /\ shadow' = [Keep(shadow, cache') EXCEPT ![key[p]].hits = @ + 1]
     ELSE UNCHANGED <<cache, ret, shadow>>
  /\ pc' = [pc EXCEPT ![p] = "get_ret"]
  /\ UNCHANGED <<max_size, lock, now, req, arg, key, tmp, tnow, pre>>

GetReturn(p) ==
  /\ pc[p] = "get_ret"
  /\ LockRelease(p)
  /\ Return(p)
  /\ UNCHANGED <<max_size, cache, now, shadow>>

\* ----------------------------------------------------- SearchCache.set

\* set is called: key = self._make_key(query, path, **kwargs), then the
\* caller enters async with self._lock.
SetCall(p, r, v) ==
  /\ pc[p] = "idle"
  /\ LockAcquire(p)
  /\ pc' = [pc EXCEPT ![p] = "set_check"]
  /\ req' = [req EXCEPT ![p] = r]
  /\ arg' = [arg EXCEPT ![p] = v]
  /\ key' = [key EXCEPT ![p] = KeyOf(r)]
  /\ UNCHANGED <<max_size, cache, now, tmp, tnow, ret, pre, shadow>>

\* A faulty capacity test: > for >=.
OverCapacity(c) == Len(c) > max_size

\* len(self._cache) >= self.max_size
AtCapacity(c) == Len(c) >= max_size

\* A faulty capacity check: at capacity every entry past its TTL goes, and the
\* oldest entry only when there is none.
SetCheckPurges(p) ==
  /\ pc[p] = "set_check"
  /\ pre' = [pre EXCEPT ![p] = cache]
  /\ cache' = IF ~AtCapacity(cache) THEN cache
              ELSE IF \E i \in 1..Len(cache) : Expired(cache[i], now)
              THEN SelectSeq(cache, LAMBDA e : ~Expired(e, now))
              ELSE evict_oldest(cache)
  /\ shadow' = Keep(shadow, cache')
  /\ pc' = [pc EXCEPT ![p] = "set_insert"]
  /\ UNCHANGED <<max_size, lock, now, req, arg, key, tmp, tnow, ret>>

\* if len(self._cache) >= self.max_size: self._evict_oldest()
SetCheck(p) ==
  /\ pc[p] = "set_check"
  /\ pre' = [pre EXCEPT ![p] = cache]
  /\ cache' = IF AtCapacity(cache) THEN evict_oldest(cache) ELSE cache
  /\ shadow' = Keep(shadow, cache')
  /\ pc' = [pc EXCEPT ![p] = "set_insert"]
  /\ UNCHANGED <<max_size, lock, now, req, arg, key, tmp, tnow, ret>>

\* A faulty insert: an overwrite carries the old entry's hits over.
StoreKeepsHits(c, k, v, t) ==
  DictSet(c, k, [CacheEntry(k, v, t) EXCEPT
                   !.hits = IF Has(c, k) THEN Lookup(c, k).hits ELSE 0])

\* self._cache[key] = CacheEntry(result=result, created_at=time.time())
Store(c, k, v, t) == DictSet(c, k, CacheEntry(k, v, t))

SetInsert(p) ==
  /\ pc[p] = "set_insert"
  /\ tnow' = [tnow EXCEPT ![p] = now]
  /\ cache' = Store(cache, key[p], arg[p], now)
  /\ shadow' = [Keep(shadow, cache') EXCEPT
                  ![key[p]] = [req |-> req[p], result |-> arg[p], at |-> now, hits |-> 0]]
  /\ pc' = [pc EXCEPT ![p] = "set_ret"]
  /\ UNCHANGED <<max_size, lock, now, req, arg, key, tmp, ret, pre>>

SetReturn(p) ==
  /\ pc[p] = "set_ret"
  /\ LockRelease(p)
  /\ Return(p)
  /\ UNCHANGED <<max_size, cache, now, shadow>>

\* --------------------------------------------------- SearchCache.clear

\* clear is called and the caller enters async with self._lock.
ClearCall(p) ==
  /\ pc[p] = "idle"
  /\ LockAcquire(p)
  /\ pc' = [pc EXCEPT ![p] = "clear_body"]
  /\ UNCHANGED <<max_size, cache, now, req, arg, key, tmp, tnow, ret, pre, shadow>>

\* A faulty clear: it drops the oldest entry only.
ClearBodyDropsOne(p) ==
  /\ pc[p] = "clear_body"
  /\ pre' = [pre EXCEPT ![p] = cache]
  /\ cache' = evict_oldest(cache)
  /\ shadow' = Keep(shadow, cache')
  /\ pc' = [pc EXCEPT ![p] = "clear_ret"]
  /\ UNCHANGED <<max_size, lock, now, req, arg, key, tmp, tnow, ret>>

\* self._cache.clear()
ClearBody(p) ==
  /\ pc[p] = "clear_body"
  /\ pre' = [pre EXCEPT ![p] = cache]
  /\ cache' = <<>>
  /\ shadow' = Keep(shadow, cache')
  /\ pc' = [pc EXCEPT ![p] = "clear_ret"]
  /\ UNCHANGED <<max_size, lock, now, req, arg, key, tmp, tnow, ret>>

ClearReturn(p) ==
  /\ pc[p] = "clear_ret"
  /\ LockRelease(p)
  /\ Return(p)
  /\ UNCHANGED <<max_size, cache, now, shadow>>

\* --------------------------------------------------- SearchCache.stats

\* The labels of a call under way that has not failed.
Labels ==
  {"idle", "get_lookup", "get_inc", "get_ret", "set_check", "set_insert",
   "set_ret", "clear_body", "clear_ret"}

\* The next step of the call caller p has under way.
Body(p) ==
  \/ GetLookup(p) \/ GetInc(p) \/ GetReturn(p)
  \/ SetCheck(p) \/ SetInsert(p) \/ SetReturn(p)
  \/ ClearBody(p) \/ ClearReturn(p)

\* The entries of dict c that are still fresh at time t.
Fresh(c, t) == SelectSeq(c, LAMBDA e : ~(t - e.created_at > ttl_seconds))

\* A faulty stats: entries past their TTL are left out of the count and the sum.
stats_of_fresh ==
  [entries |-> Len(Fresh(cache, now)), max_size |-> max_size,
   total_hits |-> SumHits(Fresh(cache, now))]

\* The stats property: {"entries", "max_size", "total_hits"}.
stats == [entries |-> Len(cache), max_size |-> max_size, total_hits |-> SumHits(cache)]

\* --------------------------------------------------- specifications

\* Callers of one cache instance, each running get, set or clear, with the
\* clock moving between their steps; no engine is involved.
Next ==
  \/ Tick /\ UNCHANGED evars
  \/ \E p \in Procs :
       \/ \E r \in Requests : GetCall(p, r) /\ UNCHANGED evars
       \/ GetLookup(p) /\ UNCHANGED evars
       \/ GetInc(p) /\ UNCHANGED evars
       \/ GetReturn(p) /\ UNCHANGED evars
       \/ \E r \in Requests : \E v \in Results : SetCall(p, r, v) /\ UNCHANGED evars
       \/ SetCheck(p) /\ UNCHANGED evars
       \/ SetInsert(p) /\ UNCHANGED evars
       \/ SetReturn(p) /\ UNCHANGED evars
       \/ ClearCall(p) /\ UNCHANGED evars
       \/ ClearBody(p) /\ UNCHANGED evars
       \/ ClearReturn(p) /\ UNCHANGED evars

Spec == Init /\ [][Next]_vars

\* Calls whose queries and paths contain the separator, and whose keyword
\* arguments come in either order.
KeyRequests ==
  { Request(q, d, kw) :
      q \in {<<"a">>, <<"a", ":", "b">>},
      d \in {<<"c">>, <<"b", ":", "c">>},
      kw \in { <<>>,
               << <<fuzzy, <<"bool", 1>>>>, <<max_results, <<"int", 5>>>> >>,
               << <<max_results, <<"int", 5>>>>, <<fuzzy, <<"bool", 1>>>> >> } }

\* One caller issuing gets and sets over KeyRequests, one after the other.
NextKeys ==
  \/ \E r \in KeyRequests : GetCall(1, r) /\ UNCHANGED evars
  \/ GetLookup(1) /\ UNCHANGED evars
  \/ GetInc(1) /\ UNCHANGED evars
  \/ GetReturn(1) /\ UNCHANGED evars
  \/ \E r \in KeyRequests : SetCall(1, r, "r1") /\ UNCHANGED evars
  \/ SetCheck(1) /\ UNCHANGED evars
  \/ SetInsert(1) /\ UNCHANGED evars
  \/ SetReturn(1) /\ UNCHANGED evars

SpecKeys == Init /\ [][NextKeys]_vars

\* ------------------------------------------- the engine's search

\* The searches of test_cache_integration_with_engine: search("movement",
\* path, recursive=True, context_lines=2, max_results=10) under two paths.
EngineRequests ==
  { Request(<<"m">>, d, << <<recursive, <<"bool", 1>>>>,
                           <<context_lines, <<"int", 2>>>>,
                           <<max_results, <<"int", 10>>>> >>) :
      d \in {<<"/", "x">>, <<"/", "y">>} }

\* search is called: the engine asks the cache, cache.get(query, path, **params).
SearchCall(p, r) ==
  /\ search[p] = "none"
  /\ Len(log) < MaxSearches
  /\ GetCall(p, r)
  /\ search' = [search EXCEPT ![p] = "get"]
  /\ cur' = [cur EXCEPT ![p] = [NoSearch EXCEPT !.req = r]]
  /\ UNCHANGED log

\* The get returns: on a hit the cached result is the search's result, on a
\* miss the external search comes next.
SearchGot(p) ==
  /\ search[p] = "get"
  /\ pc[p] = "get_ret"
  /\ GetReturn(p)
  /\ search' = [search EXCEPT ![p] = IF ret[p] = None THEN "miss" ELSE "hit"]
  /\ cur' = [cur EXCEPT ![p].result = ret[p], ![p].at = tnow[p]]
  /\ UNCHANGED log

\* The external search process runs, outside the cache, and gives result v.
SearchExternal(p, v) ==
  /\ search[p] = "miss"
  /\ search' = [search EXCEPT ![p] = "found"]
  /\ cur' = [cur EXCEPT ![p].result = v, ![p].invoked = 1]
  /\ UNCHANGED log
  /\ UNCHANGED cvars

\* The engine stores the result: cache.set(query, path, result, **params),
\* with the parameters of the get.
SearchStore(p) ==
  /\ search[p] = "found"
  /\ SetCall(p, cur[p].req, cur[p].result)
  /\ search' = [search EXCEPT ![p] = "set"]
  /\ UNCHANGED <<cur, log>>

\* The set returns.
SearchStored(p) ==
  /\ search[p] = "set"
  /\ pc[p] = "set_ret"
  /\ SetReturn(p)
  /\ search' = [search EXCEPT ![p] = "stored"]
  /\ UNCHANGED <<cur, log>>

\* What the caller of a search can observe when it returns: the result, and
\* the cache's stats and the entry's created_at read right after.
Observed(p) ==
  [req |-> cur[p].req, result |-> cur[p].result, invoked |-> cur[p].invoked,
   at |-> cur[p].at, entries |-> stats.entries, total_hits |-> stats.total_hits,
   created_at |-> IF Has(cache, KeyOf(cur[p].req))
                  THEN Lookup(cache, KeyOf(cur[p].req)).created_at ELSE -1]

\* search returns its result.
SearchReturn(p) ==
  /\ search[p] \in {"hit", "stored"}
  /\ log' = Append(log, Observed(p))
  /\ search' = [search EXCEPT ![p] = "none"]
  /\ cur' = [cur EXCEPT ![p] = NoSearch]
  /\ UNCHANGED cvars

\* One caller searching through an engine built with the cache, the clock
\* moving between its steps.
NextEngine ==
  \/ Tick /\ UNCHANGED evars
  \/ \E r \in EngineRequests : SearchCall(1, r)
  \/ GetLookup(1) /\ UNCHANGED evars
  \/ GetInc(1) /\ UNCHANGED evars
  \/ SearchGot(1)
  \/ \E v \in Results : SearchExternal(1, v)
  \/ SearchStore(1)
  \/ SetCheck(1) /\ UNCHANGED evars
  \/ SetInsert(1) /\ UNCHANGED evars
  \/ SearchStored(1)
  \/ SearchReturn(1)

SpecEngine == Init /\ [][NextEngine]_vars

\* The requests of the second caller: the query of test_cache_key_generation
\* under two paths.
OtherRequests == {r \in Requests : r.kwargs = <<>>}

\* The requests of the caller beside the engine: one of its own and one of
\* the engine's searches.
SharedRequests ==
  {r \in OtherRequests \cup EngineRequests : r.path \in {<<"/", "1">>, <<"/", "x">>}}

\* Caller 1 making one search through the engine while caller 2 calls get,
\* set and clear on the same cache, with requests of its own and with the
\* engine's.
NextShared ==
  \/ Tick /\ UNCHANGED evars
  \/ \E r \in EngineRequests : SearchCall(1, r)
  \/ GetLookup(1) /\ UNCHANGED evars
  \/ GetInc(1) /\ UNCHANGED evars
  \/ SearchGot(1)
  \/ \E v \in Results : SearchExternal(1, v)
  \/ SearchStore(1)
  \/ SetCheck(1) /\ UNCHANGED evars
  \/ SetInsert(1) /\ UNCHANGED evars
  \/ SearchStored(1)
  \/ \E r \in SharedRequests : GetCall(2, r) /\ UNCHANGED evars
  \/ GetLookup(2) /\ UNCHANGED evars
  \/ GetInc(2) /\ UNCHANGED evars
  \/ GetReturn(2) /\ UNCHANGED evars
  \/ \E r \in SharedRequests : SetCall(2, r, "r1") /\ UNCHANGED evars
  \/ SetCheck(2) /\ UNCHANGED evars
  \/ SetInsert(2) /\ UNCHANGED evars
  \/ SetReturn(2) /\ UNCHANGED evars
  \/ ClearCall(2) /\ UNCHANGED evars
  \/ ClearBody(2) /\ UNCHANGED evars
  \/ ClearReturn(2) /\ UNCHANGED evars

SpecShared == Init /\ [][NextShared]_vars

\* ------------------------------------------------- callers that wait

\* Caller p has called an operation and waits at async with self._lock.
Waiting(p) == pc[p] \in {"get_wait", "set_wait", "clear_wait"}

\* Room under MaxHits for one more get, counting the gets called and not
\* yet returned.
HitsRoomAhead ==
  SumHits(cache) + Cardinality({q \in Procs : InGet(q) \/ pc[q] = "get_wait"}) < MaxHits

\* get is called and the key derived; the caller comes to async with self._lock.
GetWait(p, r) ==
  /\ pc[p] = "idle"
  /\ HitsRoomAhead
  /\ pc' = [pc EXCEPT ![p] = "get_wait"]
  /\ req' = [req EXCEPT ![p] = r]
  /\ key' = [key EXCEPT ![p] = KeyOf(r)]
  /\ UNCHANGED <<max_size, cache, lock, now, arg, tmp, tnow, ret, pre, shadow>>

\* set is called and the key derived; the caller comes to async with self._lock.
SetWait(p, r, v) ==
  /\ pc[p] = "idle"
  /\ pc' = [pc EXCEPT ![p] = "set_wait"]
  /\ req' = [req EXCEPT ![p] = r]
  /\ arg' = [arg EXCEPT ![p] = v]
  /\ key' = [key EXCEPT ![p] = KeyOf(r)]
  /\ UNCHANGED <<max_size, cache, lock, now, tmp, tnow, ret, pre, shadow>>

\* clear is called; the caller comes to async with self._lock.
ClearWait(p) ==
  /\ pc[p] = "idle"
  /\ pc' = [pc EXCEPT ![p] = "clear_wait"]
  /\ UNCHANGED <<max_size, cache, lock, now, req, arg, key, tmp, tnow, ret, pre, shadow>>

\* The waiting caller is given the lock and enters the body of its operation.
Enter(p) ==
  /\ Waiting(p)
  /\ LockAcquire(p)
  /\ pc' = [pc EXCEPT ![p] = CASE pc[p] = "get_wait" -> "get_lookup"
                                [] pc[p] = "set_wait" -> "set_check"
                                [] pc[p] = "clear_wait" -> "clear_body"]
  /\ UNCHANGED <<max_size, cache, now, req, arg, key, tmp, tnow, ret, pre, shadow>>

\* Two callers whose calls wait for the lock, the clock moving between steps.
NextWaiting ==
  \/ Tick /\ UNCHANGED evars
  \/ \E p \in Procs :
       \/ \E r \in OtherRequests : GetWait(p, r) /\ UNCHANGED evars
       \/ \E r \in OtherRequests : SetWait(p, r, "r1") /\ UNCHANGED evars
       \/ ClearWait(p) /\ UNCHANGED evars
       \/ Enter(p) /\ UNCHANGED evars
       \/ GetLookup(p) /\ UNCHANGED evars
       \/ GetInc(p) /\ UNCHANGED evars
       \/ GetReturn(p) /\ UNCHANGED evars
       \/ SetCheck(p) /\ UNCHANGED evars
       \/ SetInsert(p) /\ UNCHANGED evars
       \/ SetReturn(p) /\ UNCHANGED evars
       \/ ClearBody(p) /\ UNCHANGED evars
       \/ ClearReturn(p) /\ UNCHANGED evars

\* The event loop runs every coroutine that can run (weak fairness of the
\* bodies), and asyncio.Lock wakes its waiters in the order they arrived, so
\* a waiter is given the lock after finitely many releases (strong fairness
\* of entering).
Fairness ==
  \A p \in Procs :
    /\ WF_vars(Body(p) /\ UNCHANGED evars)
    /\ SF_vars(Enter(p) /\ UNCHANGED evars)

SpecWaiting == Init /\ [][NextWaiting]_vars /\ Fairness

\* ------------------------------------------------------------- claims

EntriesOf(c) == {c[i] : i \in 1..Len(c)}

\* C1: with max_size >= 1, the number of stored entries never exceeds
\* max_size, after any step of any get, set or clear of any caller.
C1_CardinalityBound == max_size >= 1 => Len(cache) <= max_size

\* A set has completed on a cache that was full, and the cache is full.
C1_Witness ==
  \E p \in Procs : pc[p] = "set_ret" /\ Len(pre[p]) = max_size /\ Len(cache) = max_size

\* C2: a get on a stored fingerprint returns the stored result exactly when
\* the entry's age at the get is at most ttl_seconds; when the age exceeds
\* ttl_seconds it returns None and the entry is gone from the dict, so that
\* stats.entries is one less.
C2_NoStaleGet ==
  \A p \in Procs :
    (pc[p] = "get_ret" /\ Has(pre[p], key[p])) =>
      LET e == Lookup(pre[p], key[p])
          age == tnow[p] - e.created_at
      IN /\ (ret[p] = e.result) <=> (age <= ttl_seconds)
         /\ (ret[p] = None) <=> (age > ttl_seconds)
         /\ age > ttl_seconds =>
              /\ ~Has(cache, key[p])
              /\ stats.entries = Len(pre[p]) - 1

\* A get found its entry expired and returned None.
C2_Witness ==
  \E p \in Procs :
    /\ pc[p] = "get_ret"
    /\ Has(pre[p], key[p])
    /\ tnow[p] - Lookup(pre[p], key[p]).created_at > ttl_seconds
    /\ ret[p] = None

\* C3: a set on a stored fingerprint evicts nothing: the cardinality is the
\* same afterwards and every other entry is still stored, unchanged.
C3_OverwriteEvictsNothing ==
  \A p \in Procs :
    (pc[p] = "set_ret" /\ Has(pre[p], key[p])) =>
      /\ Len(cache) = Len(pre[p])
      /\ \A e \in EntriesOf(pre[p]) : e.key # key[p] => e \in EntriesOf(cache)

\* C4: a set of a fingerprint that is not stored, on a cache holding
\* max_size entries, evicts exactly one entry, one whose created_at is the
\* smallest, whatever the hits; the cardinality is max_size afterwards, the
\* evicted key is not stored and the new key is stored and fresh.
C4_EvictsOldest ==
  \A p \in Procs :
    (pc[p] = "set_ret" /\ ~Has(pre[p], key[p]) /\ Len(pre[p]) = max_size) =>
      /\ \E i \in 1..Len(pre[p]) :
           /\ \A j \in 1..Len(pre[p]) : pre[p][i].created_at <= pre[p][j].created_at
           /\ ~Has(cache, pre[p][i].key)
           /\ \A j \in 1..Len(pre[p]) : j # i => pre[p][j] \in EntriesOf(cache)
      /\ Len(cache) = max_size
      /\ Has(cache, key[p])
      /\ ~Expired(Lookup(cache, key[p]), tnow[p])

\* A set of a new key on a full cache of two has completed, and the entry it
\* evicted had been hit while the entry it kept had not.
C4_Witness ==
  \E p \in Procs :
    /\ pc[p] = "set_ret" /\ ~Has(pre[p], key[p]) /\ Len(pre[p]) = max_size
    /\ Len(pre[p]) = 2
    /\ \E i, j \in 1..2 :
         /\ ~Has(cache, pre[p][i].key) /\ pre[p][i].hits > 0
         /\ Has(cache, pre[p][j].key) /\ pre[p][j].hits = 0

\* C5: at most one caller is inside a critical section, and it is the one
\* holding the lock; no update is lost: each stored entry's hits counter is
\* the number of gets that hit it since it was set, and no key is stored twice.
C5_Serialized ==
  /\ Cardinality({p \in Procs : InCritical(p)}) <= 1
  /\ \A p \in Procs : InCritical(p) <=> lock = p
  /\ \A i \in 1..Len(cache) : cache[i].hits = shadow[cache[i].key].hits
  /\ \A i, j \in 1..Len(cache) : cache[i].key = cache[j].key => i = j

\* A get has hit an entry for the second time since it was set.
C5_Witness ==
  \E p \in Procs :
    /\ pc[p] = "get_ret" /\ ret[p] # None
    /\ Lookup(cache, key[p]).hits = 2
    /\ shadow[key[p]].hits = 2

\* C6: a get on an empty cache returns None; a get that hits returns the
\* result passed to the latest set on its fingerprint, and a get within the
\* TTL of that set does hit; every set leaves its fingerprint mapped to an
\* entry with the result passed, hits = 0 and created_at = the time of the set.
C6_SetThenGet ==
  \A p \in Procs :
    /\ (pc[p] = "get_ret" /\ pre[p] = <<>>) => ret[p] = None
    /\ (pc[p] = "get_ret" /\ ret[p] # None) =>
         /\ Has(cache, key[p])
         /\ ret[p] = shadow[key[p]].result
    /\ (pc[p] = "get_ret" /\ Has(cache, key[p])
          /\ tnow[p] - shadow[key[p]].at <= ttl_seconds) =>
         ret[p] = shadow[key[p]].result
    /\ pc[p] = "set_ret" =>
         /\ Has(cache, key[p])
         /\ Lookup(cache, key[p]) =
              [key |-> key[p], result |-> arg[p], created_at |-> tnow[p], hits |-> 0]

\* A get with a keyword argument returned what the latest set stored.
C6_Witness ==
  \E p \in Procs :
    /\ pc[p] = "get_ret" /\ ret[p] \in Results
    /\ req[p].kwargs # <<>>
    /\ ret[p] = shadow[key[p]].result

\* C7: a get that finds a fresh entry adds 1 to the hits of that entry and
\* changes nothing else in the dict, so stats.total_hits grows by 1; the
\* hits of an entry is the number of gets that hit it since its set.
C7_HitCountsOnce ==
  /\ \A p \in Procs :
       (pc[p] = "get_ret" /\ ret[p] # None) =>
         /\ Has(pre[p], key[p])
         /\ cache = [pre[p] EXCEPT ![IndexOf(pre[p], key[p])].hits = @ + 1]
         /\ stats.total_hits = SumHits(pre[p]) + 1
  /\ \A k \in KeysOf(cache) : Lookup(cache, k).hits = shadow[k].hits

\* The second of two gets on one key has returned, with another entry stored.
C7_Witness ==
  \E p \in Procs :
    /\ pc[p] = "get_ret" /\ ret[p] # None
    /\ Len(cache) = 2
    /\ Lookup(cache, key[p]).hits = 2
    /\ stats.total_hits = 2

\* A call has derived its key and holds the lock, its body still to run.
Addressing(p) == pc[p] \in {"get_lookup", "set_check"}

\* C8: parameter sets that differ in any field have different keys: a call
\* addresses a stored entry only if that entry was set with the same query,
\* the same path and the same keyword arguments.
C8_KeySeparation ==
  \A p \in Procs :
    (Addressing(p) /\ Has(cache, key[p])) => SameParams(shadow[key[p]].req, req[p])

\* C9: the key does not depend on the order of the keyword arguments: a call
\* with the parameter set an entry was set with addresses that entry.
C9_OrderIndependent ==
  \A p \in Procs :
    Addressing(p) =>
      \A k \in KeysOf(cache) : SameParams(shadow[k].req, req[p]) => k = key[p]

\* A get has hit an entry that was set with the same keyword arguments
\* written in the other order.
C9_Witness ==
  \E p \in Procs :
    /\ pc[p] = "get_ret" /\ ret[p] # None
    /\ SameParams(shadow[key[p]].req, req[p])
    /\ shadow[key[p]].req.kwargs # req[p].kwargs

\* C10, as stated: of two successive identical searches, starting on an
\* empty cache, exactly one runs the external search; stats shows 1 entry and
\* 0 hits after the first and 1 entry and 1 hit after the second; the second
\* returns the result of the first and leaves created_at as it was.
C10_SecondSearchHits ==
  (Len(log) >= 2 /\ log[1].req = log[2].req) =>
    /\ log[1].invoked + log[2].invoked = 1
    /\ log[1].entries = 1 /\ log[1].total_hits = 0
    /\ log[2].entries = 1 /\ log[2].total_hits = 1
    /\ log[2].result = log[1].result
    /\ log[2].created_at = log[1].created_at

\* C10, amended: the same, provided the second search looks the cache up no
\* later than ttl_seconds after the first search stored its result; and so
\* for any search that follows an identical search that stored its result.
C10_SecondSearchHitsWithinTtl ==
  /\ Len(log) >= 1 =>
       log[1].invoked = 1 /\ log[1].entries = 1 /\ log[1].total_hits = 0
  /\ \A i \in 1..(Len(log) - 1) :
       (/\ log[i].req = log[i + 1].req
        /\ log[i].invoked = 1
        /\ log[i + 1].at - log[i].created_at <= ttl_seconds) =>
         /\ log[i + 1].invoked = 0
         /\ log[i + 1].entries = log[i].entries
         /\ log[i + 1].total_hits = log[i].total_hits + 1
         /\ log[i + 1].result = log[i].result
         /\ log[i + 1].created_at = log[i].created_at

\* The second of two identical searches has returned from the cache, the
\* clock having moved since the first stored its result.
C10_Witness ==
  /\ Len(log) >= 2
  /\ log[1].req = log[2].req
  /\ log[1].invoked = 1 /\ log[2].invoked = 0
  /\ log[2].at > log[1].created_at
  /\ log[2].total_hits = 1

\* The external search of caller p is under way or done and not yet stored:
\* p is between its missed get and its set.
Searching(p) == search[p] \in {"miss", "found"}

\* C11: between a caller's missed get and its set the caller does not hold the
\* lock and is in no cache operation; the lock is held only by another caller
\* inside an operation of its own, which can take its next step, and is free
\* otherwise, so that another caller's call can start.
C11_SearchOutsideLock ==
  \A p \in Procs :
    Searching(p) =>
      /\ lock # p
      /\ pc[p] = "idle"
      /\ \A q \in Procs \ {p} :
           /\ InCritical(q) => lock = q /\ ENABLED Body(q)
           /\ ~InCritical(q) => lock = NoOne /\ ENABLED ClearCall(q)

\* While caller 1's external search is under way, caller 2 has completed a set
\* under another key, on the dict the missed get had left.
C11_Witness ==
  /\ Searching(1)
  /\ pc[2] = "set_ret"
  /\ key[2] # KeyOf(cur[1].req)
  /\ Has(cache, key[2])
  /\ ~Has(cache, KeyOf(cur[1].req))


\* C12: when clear completes the dict is empty: stats.entries and
\* stats.total_hits are 0 and no key stored before is stored any more.
C12_ClearEmpties ==
  \A p \in Procs :
    pc[p] = "clear_ret" =>
      /\ stats.entries = 0
      /\ stats.total_hits = 0
      /\ \A k \in KeysOf(pre[p]) : ~Has(cache, k)

\* A clear has completed on a cache of two entries with a hit recorded.
C12_Witness ==
  \E p \in Procs :
    /\ pc[p] = "clear_ret"
    /\ Len(pre[p]) = 2
    /\ SumHits(pre[p]) > 0
    /\ cache = <<>>

\* The hits recorded by the history for the keys in S.
RECURSIVE HitsSince(_)
HitsSince(S) ==
  IF S = {} THEN 0
  ELSE LET k == CHOOSE x \in S : TRUE IN shadow[k].hits + HitsSince(S \ {k})

\* An entry is stored that has been hit and whose age exceeds ttl_seconds.
StaleHitStored ==
  \E i \in 1..Len(cache) : cache[i].hits > 0 /\ now - cache[i].created_at > ttl_seconds

\* C13: between completed operations stats.entries is the number of stored
\* keys, stats.max_size the capacity the cache was constructed with, and
\* stats.total_hits the number of gets that hit the entries now stored, those
\* past their TTL and not yet purged included.
C13_StatsSnapshot ==
  (\A p \in Procs : ~InCritical(p)) =>
    /\ stats.entries = Cardinality(KeysOf(cache))
    /\ stats.entries = Cardinality(DOMAIN shadow)
    /\ stats.max_size = max_size
    /\ stats.total_hits = HitsSince(DOMAIN shadow)
    /\ StaleHitStored => stats.total_hits > 0

\* No operation is under way, and an entry that was hit is past its TTL and
\* still stored beside another entry.
C13_Witness ==
  /\ \A p \in Procs : ~InCritical(p)
  /\ StaleHitStored
  /\ stats.entries = 2
  /\ stats.total_hits = MaxHits

\* The step is the insert of a set by caller p.
InsertStep(p) == pc[p] = "set_insert" /\ pc'[p] = "set_ret"

\* C14: while an entry is stored and not replaced by a set its hits never
\* decrease, whatever step is taken; the entry a set inserts, over an old entry
\* or after a removal, starts with hits = 0.
C14_HitsMonotone ==
  [][/\ \A k \in KeysOf(cache) \cap KeysOf(cache') :
          \/ \E p \in Procs : InsertStep(p) /\ key[p] = k
          \/ Lookup(cache', k).hits >= Lookup(cache, k).hits
     /\ \A p \in Procs :
          InsertStep(p) => Lookup(cache', key[p]).hits = 0]_vars

\* A set has replaced an entry that had been hit, and the new entry has no hit.
C14_Witness ==
  \E p \in Procs :
    /\ pc[p] = "set_ret"
    /\ Has(pre[p], key[p])
    /\ Lookup(pre[p], key[p]).hits > 0
    /\ Has(cache, key[p])
    /\ Lookup(cache, key[p]).hits = 0

C16_MissChangesNothing ==
  \A p \in Procs :
    (pc[p] = "get_ret" /\ ~Has(pre[p], key[p])) =>
      /\ ret[p] = None
      /\ cache = pre[p]

\* A get has missed on a dict that holds an entry past its TTL under another
\* key, hits recorded.
C16_Witness ==
  \E p \in Procs :
    /\ pc[p] = "get_ret"
    /\ ~Has(pre[p], key[p])
    /\ ret[p] = None
    /\ \E i \in 1..Len(cache) : Expired(cache[i], tnow[p]) /\ cache[i].hits > 0

\* The entry is older than ttl_seconds at time t.
PastTtl(e, t) == t - e.created_at > ttl_seconds

\* C17: no call ends in an error: a call under way is at a label of its
\* operation and can take its next step, a get returns a stored result or
\* None, and it returns None both on a miss and on an entry past its TTL;
\* stats is defined in every state.
C17_NoError ==
  /\ \A p \in Procs :
       /\ pc[p] \in Labels
       /\ InCritical(p) => ENABLED Body(p)
       /\ pc[p] = "get_ret" =>
            IF ~Has(pre[p], key[p]) \/ PastTtl(Lookup(pre[p], key[p]), tnow[p])
            THEN ret[p] = None
            ELSE ret[p] = Lookup(pre[p], key[p]).result
  /\ stats.entries \in 0..max_size
  /\ stats.total_hits \in Nat

\* A get on a full dict has found its entry past its TTL, purged it and
\* returned None.
C17_Witness ==
  \E p \in Procs :
    /\ pc[p] = "get_ret"
    /\ Len(pre[p]) = max_size
    /\ Has(pre[p], key[p])
    /\ PastTtl(Lookup(pre[p], key[p]), tnow[p])
    /\ ~Has(cache, key[p])
    /\ ret[p] = None

\* C18: a step that moves the clock leaves the dict as it is; an entry past
\* its TTL leaves the dict only in a get on its key, in the capacity check of
\* a set on a full dict, or in a clear; and it holds a slot: the capacity
\* check counts it, removes one entry when the dict is full and none otherwise.
C18_LazyExpiration ==
  [][/\ now' # now => cache' = cache
     /\ \A i \in 1..Len(cache) :
          (PastTtl(cache[i], now) /\ ~Has(cache', cache[i].key)) =>
            \E p \in Procs :
              \/ pc[p] = "get_lookup" /\ key[p] = cache[i].key
              \/ pc[p] = "set_check" /\ Len(cache) >= max_size
              \/ pc[p] = "clear_body"
     /\ \A p \in Procs :
          (pc[p] = "set_check" /\ pc'[p] = "set_insert") =>
            Len(cache') = IF Len(cache) >= max_size THEN Len(cache) - 1
                          ELSE Len(cache)]_vars

\* The capacity check of a set has found the dict full of entries past their
\* TTL and has removed one of them; the other is still stored.
C18_Witness ==
  \E p \in Procs :
    /\ pc[p] = "set_insert"
    /\ Len(pre[p]) = 2
    /\ \A i \in 1..2 : PastTtl(pre[p][i], now)
    /\ ~Has(pre[p], key[p])
    /\ Len(cache) = 1

\* C19: under fair scheduling every call that has started completes; the lock
\* is held only by a caller inside the body of its operation, so it is released
\* on every exit; a call under way waits only for the lock: inside the body it
\* can take its next step, and waiting it can enter once the lock is free.
C19_EveryCallCompletes ==
  /\ [](\A p \in Procs :
          /\ lock = p => InCritical(p)
          /\ InCritical(p) => ENABLED Body(p)
          /\ (Waiting(p) /\ lock = NoOne) => ENABLED Enter(p))
  /\ [](lock = NoOne \/ \E p \in Procs : InCritical(p))
  /\ \A p \in Procs : (pc[p] # "idle") ~> (pc[p] = "idle")

\* Caller 1 waits for the lock while caller 2 is inside a get that has found
\* its entry past its TTL and purged it.
C19_Witness ==
  /\ Waiting(1)
  /\ lock = 2
  /\ pc[2] = "get_ret"
  /\ Has(pre[2], key[2])
  /\ ~Has(cache, key[2])


\* C20: when the capacity check of a set removes an entry while an entry past
\* its TTL is stored, the entry removed is past its TTL.
C20_EvictsExpiredFirst ==
  [][\A p \in Procs :
       (pc[p] = "set_check" /\ pc'[p] = "set_insert") =>
         \A i \in 1..Len(cache) :
           ((\E j \in 1..Len(cache) : PastTtl(cache[j], now))
              /\ ~Has(cache', cache[i].key)) => PastTtl(cache[i], now)]_vars

\* The capacity check has found one entry past its TTL and one fresh entry,
\* and the fresh entry is the one still stored.
C20_Witness ==
  \E p \in Procs :
    /\ pc[p] = "set_insert"
    /\ Len(pre[p]) = 2
    /\ Len(cache) = 1
    /\ \E i \in 1..2 : PastTtl(pre[p][i], now) /\ ~Has(cache, pre[p][i].key)
    /\ ~PastTtl(cache[1], now)

=============================================================================
